---- MODULE Spec2Model ----
(***************************************************************************)
(* Model of src/main.py: the ComHandler protocol engine of the earbud      *)
(* client (frame codec, command handlers, background listener and status   *)
(* updater threads) together with the sequence handling of main().         *)
(*                                                                         *)
(* Byte strings are sequences of integers 0..255 and a decoded str is the  *)
(* sequence of its code points.  Python's None is the string "None" where  *)
(* the other values are strings and NoBytes where they are byte strings.   *)
(* A raised exception is a record [raised |-> <type>].                     *)
(***************************************************************************)
EXTENDS Integers, Sequences, FiniteSets, TLC

(***************************************************************************)
(* Bounds of the exploration.                                              *)
(***************************************************************************)
\* the incoming queue (queue.Queue(), unbounded) holds at most this many
\* chunks.  The consumers only ever take the head of a non-empty queue, so a
\* put that is delayed until the queue is empty is observed like an earlier one.
MaxQueue == 1
\* Spec: main() reads a new command only while sequence <= MaxSequence
MaxSequence == 3
\* SpecLong: main() reads a new command only while sequence <= LongSequence
LongSequence == 17
\* SpecCodec: build_packet is given payloads of at most MaxPayload bytes (and
\* two long ones), parse_packet raw strings of at most MaxRaw bytes
MaxPayload == 2
MaxRaw == 6

(***************************************************************************)
(* Class constants of ComHandler (src/main.py:35-84).                      *)
(***************************************************************************)
None == "None"
NoBytes == <<-1>>

PAIR_COMMAND == <<39>>

PAIR_0 == <<255, 0>>
PAIR_1 == <<1, 0, 2, 0, 3, 0, 4, 0, 5, 0, 6, 0, 7, 0, 8, 0, 9, 0, 10, 0,
            11, 0, 12, 0, 13, 0, 14, 0, 15, 0, 16, 0, 17, 0, 18, 0, 19, 0,
            20, 0, 21, 0, 22, 0, 23, 0, 24, 0, 254, 0, 32, 0>>
PAIR_2 == <<12, 0>>

GAME_MODE_COMMAND == <<37>>
SPATIAL_AUDIO_COMMAND == <<54>>
EARBUD_FUNCTIONALITY_COMMAND == <<34>>
SOUND_PROFILE_COMMAND == <<32>>

TOGGLE_ON == <<1>>
TOGGLE_OFF == <<0>>

BATTERY_INDEX == 2
BATTERY_OFFSET == 5
NAME_LENGTH_OFFSET == 12
NAME_OFFSET == 12

LEFT_BUD == 1
RIGHT_BUD == 2

TAP_AMNT == <<0, 2, 4>>

NONE == <<1, 0>>
PLAY_PAUSE == <<1, 7>>
LAST_TRACK == <<1, 3>>
NEXT_TRACK == <<1, 4>>
VOL_UP == <<1, 5>>
VOL_DOWN == <<1, 6>>

\* a Python list, indexed from 0: PRESETS[k] is PRESETS_LIST[k + 1]
PRESETS_LIST == << <<1, 253, 254, 4, 1, 2, 1, 3, 0, 0, 0>>,
                   <<2, 10, 6, 4, 255, 254, 253, 1, 0, 0, 0>>,
                   <<3, 3, 2, 253, 3, 255, 3, 2, 5, 0, 0>>,
                   <<4, 250, 253, 255, 1, 1, 4, 6, 0, 0, 0>>,
                   <<5, 250, 253, 6, 4, 3, 251, 250, 0, 0, 0>> >>

HEARTBEAT == <<40>>

(***************************************************************************)
(* Python primitives.                                                      *)
(***************************************************************************)
Min(a, b) == IF a < b THEN a ELSE b

Raise(type) == [raised |-> type]

Raised(v) == "raised" \in DOMAIN v

Last(s) == s[Len(s)]

\* s[a:b] for 0 <= a, 0 <= b: never raises, clips at len(s)
Slice(s, a, b) == SubSeq(s, a + 1, Min(b, Len(s)))

\* int.to_bytes(n) raises OverflowError unless n fits one unsigned byte
Overflows(n) == n \notin 0..255

\* int.to_bytes(n), default length 1, for an n that fits
int_to_bytes(n) == <<n>>

\* int.from_bytes(b), default big-endian; TypeError on None
RECURSIVE BigEndian(_)
BigEndian(b) == IF b = <<>> THEN 0 ELSE 256 * BigEndian(SubSeq(b, 1, Len(b) - 1)) + Last(b)

int_from_bytes(b) == IF b = NoBytes THEN Raise("TypeError") ELSE [value |-> BigEndian(b)]

\* bytes.decode('utf-8'): the code points, or UnicodeDecodeError
Cont(b, k) == k <= Len(b) /\ b[k] \in 128..191

RECURSIVE Utf8(_)
Utf8(b) ==
    IF b = <<>> THEN <<>>
    ELSE LET c == b[1]
             n == IF c < 128 THEN 1
                  ELSE IF c \in 194..223 /\ Cont(b, 2) THEN 2
                  ELSE IF c \in 224..239 /\ Cont(b, 2) /\ Cont(b, 3)
                          /\ (c = 224 => b[2] >= 160) /\ (c = 237 => b[2] <= 159) THEN 3
                  ELSE IF c \in 240..244 /\ Cont(b, 2) /\ Cont(b, 3) /\ Cont(b, 4)
                          /\ (c = 240 => b[2] >= 144) /\ (c = 244 => b[2] <= 143) THEN 4
                  ELSE 0
             point == CASE n = 1 -> c
                        [] n = 2 -> (c - 192) * 64 + (b[2] - 128)
                        [] n = 3 -> (c - 224) * 4096 + (b[2] - 128) * 64 + (b[3] - 128)
                        [] n = 4 -> (c - 240) * 262144 + (b[2] - 128) * 4096
                                    + (b[3] - 128) * 64 + (b[4] - 128)
                        [] OTHER -> -1
             rest == IF n = 0 THEN <<-1>> ELSE Utf8(SubSeq(b, n + 1, Len(b)))
         IN  IF n = 0 \/ rest = <<-1>> THEN <<-1>> ELSE <<point>> \o rest

utf8_decode(b) == IF Utf8(b) = <<-1>> THEN Raise("UnicodeDecodeError") ELSE [value |-> Utf8(b)]

(***************************************************************************)
(* Frame codec.                                                            *)
(***************************************************************************)
\* build_packet with the client id bytes in the other order
build_packet_id_swapped(sequence, command, payload) ==
    sequence \o command \o <<0, 1>> \o <<Len(payload)>> \o payload

\* build_packet(sequence, command, payload), sequence already one byte
build_packet(sequence, command, payload) ==
    sequence \o command \o <<1, 0>> \o <<Len(payload)>> \o payload

\* parse_packet(packet).  packet[4] raises IndexError for fewer than five
\* bytes; the handler then calls Response(error=...) without the five
\* required fields of the dataclass, which raises TypeError.  The slices
\* never raise.
parse_packet(packet) ==
    IF Len(packet) < 5 THEN Raise("TypeError")
    ELSE [sequence     |-> Slice(packet, 0, 1),
          command      |-> Slice(packet, 1, 2),
          id           |-> Slice(packet, 2, 3),
          payload_size |-> packet[5],
          payload      |-> Slice(packet, 5, 5 + packet[5]),
          error        |-> None]

(***************************************************************************)
(* Frame classification (the status updater's parsers).                    *)
(***************************************************************************)
Payload(l, r, c, n, e) ==
    [battery_l |-> l, battery_r |-> r, battery_case |-> c, name |-> n, error |-> e]

\* _parse_heartbeat(packet): payload[2], payload[3] are ints; IndexError
\* (not caught) when the payload holds fewer bytes than payload_size says
_parse_heartbeat(packet) ==
    IF packet.payload_size > 3
    THEN IF Len(packet.payload) < 4 THEN Raise("IndexError")
         ELSE [battery_l |-> packet.payload[3], battery_r |-> packet.payload[4],
               error |-> None]
    ELSE [battery_l |-> None, battery_r |-> None, error |-> "no battery data"]

\* parse_pairing_response(payload): only IndexError is caught
parse_pairing_response(packet) ==
    IF packet.payload_size > 14
    THEN LET payload == packet.payload
         IN  IF Len(payload) <= NAME_LENGTH_OFFSET
             THEN Payload(NoBytes, NoBytes, NoBytes, NoBytes, "Indexing error")
             ELSE LET name_length == payload[NAME_LENGTH_OFFSET + 1] + 1
                      battery == Slice(payload, BATTERY_INDEX, BATTERY_OFFSET)
                      name == utf8_decode(Slice(payload, NAME_OFFSET, NAME_OFFSET + name_length))
                  IN  IF Raised(name) THEN name
                      ELSE Payload(Slice(battery, 0, 1), Slice(battery, 1, 2),
                                   Slice(battery, 2, 3), name.value, None)
    ELSE Payload(NoBytes, NoBytes, NoBytes, NoBytes, "wrong packet")

\* get_status with the two earbuds exchanged
get_status_swapped(data) ==
    IF Raised(int_from_bytes(data.battery_l)) \/ Raised(int_from_bytes(data.battery_r))
       \/ Raised(int_from_bytes(data.battery_case))
    THEN Raise("TypeError")
    ELSE [left   |-> int_from_bytes(data.battery_r).value,
          right  |-> int_from_bytes(data.battery_l).value,
          c_case |-> int_from_bytes(data.battery_case).value]

\* get_status(data): the three int.from_bytes calls, TypeError on a None field
get_status(data) ==
    IF Raised(int_from_bytes(data.battery_l)) \/ Raised(int_from_bytes(data.battery_r))
       \/ Raised(int_from_bytes(data.battery_case))
    THEN Raise("TypeError")
    ELSE [left   |-> int_from_bytes(data.battery_l).value,
          right  |-> int_from_bytes(data.battery_r).value,
          c_case |-> int_from_bytes(data.battery_case).value]

(***************************************************************************)
(* Command handlers.  A handler runs up to its next blocking                *)
(* _get_next_message(); the result of such a run is a record               *)
(*   [pc, step, err, seq, frames]                                          *)
(* pc: "returned" when parse_command has returned (err, seq, _), else the   *)
(* handler that waits; frames: the packets it passed to _send_data during  *)
(* the run.  sock.send is taken to succeed: the link stays up for writes.  *)
(* The handlers add 1 to sequence without wrapping; int.to_bytes raises    *)
(* OverflowError once it passes 255.                                       *)
(***************************************************************************)
Done(e, s) == [pc |-> "returned", step |-> 0, err |-> e, seq |-> s, frames |-> <<>>]

Wait(p, i, s, frame) == [pc |-> p, step |-> i, err |-> None, seq |-> s, frames |-> <<frame>>]

\* what parse_command's except clauses return for an exception out of func
Caught(type, sequence) ==
    CASE type = "TypeError"  -> Done("Invalid arguments", sequence)
      [] type = "IndexError" -> Done("Missing arguments", sequence)
      [] OTHER               -> Done(type, sequence)

steps == <<PAIR_0, PAIR_1, PAIR_2>>

\* _pair, one loop iteration up to its first _get_next_message: build and send
pair_send(sequence, i) ==
    IF Overflows(sequence) THEN Done("Pairing failed", sequence)
    ELSE Wait("pair", i, sequence,
              build_packet(int_to_bytes(sequence), PAIR_COMMAND, steps[i + 1]))

\* pair_resume without the sequence += 1 of line 249 between the steps
pair_resume_stale(at, i, sequence, data) ==
    IF at = "pair"
    THEN IF steps[i + 1] = PAIR_2
         THEN [pc |-> "drain", step |-> i, err |-> None, seq |-> sequence, frames |-> <<>>]
         ELSE pair_send(sequence, i + 1)
    ELSE IF data = <<>> THEN Done("No data recieved", sequence)
         ELSE Done(None, sequence + 1)

\* _pair from a returned _get_next_message on
pair_resume(at, i, sequence, data) ==
    IF at = "pair"
    THEN IF steps[i + 1] = PAIR_2
         THEN [pc |-> "drain", step |-> i, err |-> None, seq |-> sequence, frames |-> <<>>]
         ELSE pair_send(sequence + 1, i + 1)
    ELSE IF data = <<>> THEN Done("No data recieved", sequence)
         ELSE Done(None, sequence + 1)

\* toggle_val with the two constants exchanged
\* toggle_val that takes the state argument in either case
toggle_val_any_case(state) == IF state \in {"ON", "on"} THEN TOGGLE_ON ELSE TOGGLE_OFF

toggle_val_swapped(state) == IF state = "ON" THEN TOGGLE_OFF ELSE TOGGLE_ON

\* line 256
toggle_val(state) == IF state = "ON" THEN TOGGLE_ON ELSE TOGGLE_OFF

\* _toggle_feature up to _get_next_message; OverflowError is not caught there
toggle_send(sequence, state, cmd_code) ==
    IF Overflows(sequence) THEN Raise("OverflowError")
    ELSE Wait("toggle", 0, sequence,
              build_packet(int_to_bytes(sequence), cmd_code, toggle_val(state)))

\* _toggle_feature that takes only a frame of another opcode than the two
\* telemetry ones for its reply
toggle_resume_checked(sequence, data) ==
    LET packet == parse_packet(data)
    IN  IF Raised(packet) THEN packet
        ELSE IF packet.command \in {HEARTBEAT, PAIR_COMMAND}
        THEN Done("Unexpected frame", sequence + 1)
        ELSE Done(None, sequence + 1)

\* _toggle_feature from the reply on: parse_packet's TypeError is not caught there
toggle_resume(sequence, data) ==
    LET packet == parse_packet(data)
    IN  IF Raised(packet) THEN packet
        ELSE IF packet.error # None THEN Done(packet.error, sequence + 1)
        ELSE Done(None, sequence + 1)

\* presets.get(preset): the triple, or <<>> for None
presets(preset) ==
    CASE preset = "control1" -> <<NONE, PLAY_PAUSE, LAST_TRACK>>
      [] preset = "control2" -> <<NONE, PLAY_PAUSE, NEXT_TRACK>>
      [] preset = "volume"   -> <<VOL_DOWN, VOL_UP, NONE>>
      [] preset = "none"     -> <<NONE, NONE, NONE>>
      [] OTHER               -> <<>>

\* BUD.get(budstr): the bud number, or 0 for None
BUD(budstr) ==
    CASE budstr = "left"  -> LEFT_BUD
      [] budstr = "right" -> RIGHT_BUD
      [] OTHER            -> 0

\* fn_preset that resolves 'control' without looking at the bud
fn_preset_left(budstr, preset) == IF preset = "control" THEN "control1" ELSE preset

\* lines 280-281: 'control' becomes 'control1' or 'control2'
fn_preset(budstr, preset) ==
    IF preset = "control"
    THEN IF budstr = "left" THEN "control1" ELSE "control2"
    ELSE preset

fn_payload(bud, commands, i) == <<bud + TAP_AMNT[i + 1]>> \o commands[i + 1]

\* _bud_function_set, one loop iteration up to _get_next_message
fn_send(sequence, budstr, preset, i) ==
    LET bud == BUD(budstr)
        commands == presets(fn_preset(budstr, preset))
    IN  IF Overflows(sequence) THEN Raise("OverflowError")
        ELSE Wait("fn", i, sequence,
                  build_packet(int_to_bytes(sequence), EARBUD_FUNCTIONALITY_COMMAND,
                               fn_payload(bud, commands, i)))

\* _bud_function_set from its start to the first _get_next_message
fn_start(sequence, budstr, preset) ==
    IF presets(fn_preset(budstr, preset)) # <<>> /\ BUD(budstr) # 0
    THEN fn_send(sequence, budstr, preset, 0)
    ELSE Done("Unknown preset/earbud", sequence)

\* _bud_function_set from a returned _get_next_message on
fn_resume(i, sequence, budstr, preset) ==
    IF i + 1 < Len(presets(fn_preset(budstr, preset)))
    THEN fn_send(sequence + 1, budstr, preset, i + 1)
    ELSE Done(None, sequence + 1)

\* preset_dict.get(preset, 1): an unknown name falls back to a preset
preset_dict_default(preset) ==
    CASE preset = "standard"  -> 1
      [] preset = "heavybass" -> 2
      [] preset = "rock"      -> 3
      [] preset = "jazz"      -> 4
      [] preset = "vocal"     -> 5
      [] OTHER                -> 1

\* preset_dict.get(preset): the number, or 0 for None
preset_dict(preset) ==
    CASE preset = "standard"  -> 1
      [] preset = "heavybass" -> 2
      [] preset = "rock"      -> 3
      [] preset = "jazz"      -> 4
      [] preset = "vocal"     -> 5
      [] OTHER                -> 0

\* self.PRESETS[choice] for choice >= 0: IndexError past the end of the list
PRESETS(choice) ==
    IF choice + 1 > Len(PRESETS_LIST) THEN Raise("IndexError")
    ELSE [value |-> PRESETS_LIST[choice + 1]]

\* _set_preset up to _get_next_message
sp_start(sequence, preset) ==
    LET choice == preset_dict(preset)
    IN  IF choice # 0
        THEN IF Raised(PRESETS(choice)) THEN PRESETS(choice)
             ELSE IF Overflows(sequence) THEN Raise("OverflowError")
             ELSE Wait("sp", 0, sequence,
                       build_packet(int_to_bytes(sequence), SOUND_PROFILE_COMMAND,
                                    PRESETS(choice).value))
        ELSE Done("Selected preset does not exist.", sequence)

sp_resume(sequence) == Done(None, sequence + 1)

(***************************************************************************)
(* State.                                                                  *)
(***************************************************************************)
VARIABLES
    sequence,        \* main(): the local variable sequence
    paired,          \* ComHandler.paired
    c_case,          \* ComHandler.c_case: NoAttr until assigned
    device_name,     \* ComHandler.device_name: NoAttr until assigned
    incoming_queue,  \* self.incoming_queue: the chunks put and not yet got
    stop_listener,   \* self._stop_listener (threading.Event): is it set; no
                     \* reachable code sets it (the exit entry of the command
                     \* table raises NameError before _exit runs)
    listener,        \* listener_thread: "running" or "dead"
    updater,         \* status_update_thread: "poll", "got", "store" or "dead"
    data,            \* _status_updater: the chunk it dequeued and still works
                     \* on (<<>>: none)
    pairing_response,\* _status_updater: the Payload it holds at line 188
    live,            \* what the last self.live.update(...) showed
    pc,              \* command thread: "input" (main at line 364), the handler
                     \* that waits in _get_next_message ("pair", "drain",
                     \* "toggle", "fn", "sp"), or "returned" (parse_command
                     \* has returned to line 365)
    command,         \* parse_command: its command
    args,            \* parse_command: its *args
    seq0,            \* parse_command: the sequence it was given
    seq,             \* the handler's local sequence; the one returned
    step,            \* the handler's loop index i
    err,             \* the err returned
    sent,            \* the packets this call passed to sock.send, in order
    last_seq,        \* byte 0 of the packet most recently passed to sock.send
                     \* in the session (-1: none yet)
    dequeued,        \* how many chunks this call's _get_next_message returned
    reply,           \* _pair, _toggle_feature: the local data, the chunk the
                     \* last _get_next_message returned (<<>>: none yet)
    codec            \* a call of build_packet / parse_packet on its own: the
                     \* arguments, the packet and the Response (SpecCodec)

vars == <<sequence, paired, c_case, device_name, incoming_queue, stop_listener,
          listener, updater, data, pairing_response, live, pc, command, args,
          seq0, seq, step, err, sent, last_seq, dequeued, reply, codec>>

cmdVars == <<sequence, pc, command, args, seq0, seq, step, err, sent, last_seq,
             dequeued, reply>>

updVars == <<paired, c_case, device_name, updater, data, pairing_response, live>>

\* everything but the codec call
sessionVars == <<sequence, paired, c_case, device_name, incoming_queue,
                 stop_listener, listener, updater, data, pairing_response, live,
                 pc, command, args, seq0, seq, step, err, sent, last_seq,
                 dequeued, reply>>

NoAttr == [missing |-> TRUE]

Attr(v) == [value |-> v]

NoPayload == Payload(NoBytes, NoBytes, NoBytes, NoBytes, None)

NoResponse == [none |-> TRUE]

\* the codec is not being called on its own
NoCodec == [at |-> "off", sequence |-> 0, command |-> 0, payload |-> <<>>,
            packet |-> <<>>, response |-> NoResponse]

(***************************************************************************)
(* What the user types and what the device sends.                          *)
(***************************************************************************)
Input(c, a) == [command |-> c, args |-> a]

Inputs ==
    {Input("pair", <<>>), Input("exit", <<>>), Input("bogus", <<>>)}
    \cup {Input(c, a) : c \in {"GM", "Spatial"}, a \in {<<"ON">>, <<"OFF">>, <<"on">>, <<"ONN">>, <<>>}}
    \cup {Input("FN", <<b, p>>) : b \in {"left", "right", "top"},
                                  p \in {"control", "volume", "none", "control1",
                                        "control2", "bass"}}
    \cup {Input("SP", <<p>>) : p \in {"standard", "heavybass", "rock", "jazz", "vocal",
                                    "foo", "Rock", ""}}

\* a chunk of fewer than five bytes
ShortChunk == <<0, 37>>
\* a well-formed frame that is neither heartbeat nor pairing response
AckChunk == <<0, 37, 1, 0, 0>>
\* a pairing response: batteries 80, 90, 100, name bytes payload[12:15]
PairingChunk == <<0, 39, 1, 0, 15, 0, 0, 80, 90, 100, 0, 0, 0, 0, 0, 0, 0, 2, 66, 117>>
\* a heartbeat: batteries 55, 77
HeartbeatChunk == <<0, 40, 1, 0, 4, 0, 0, 55, 77>>

\* what the device sends while commands are exercised
DeviceChunks == {ShortChunk, AckChunk, PairingChunk, HeartbeatChunk}

\* a device that answers with well-formed frames only and sends no heartbeat
ReplyChunks == {AckChunk, PairingChunk}

\* a heartbeat of three payload bytes
ShortHeartbeat == <<0, 40, 1, 0, 3, 0, 0, 55>>
\* a heartbeat that declares four payload bytes and carries three
TruncatedHeartbeat == <<0, 40, 1, 0, 4, 0, 0, 55>>
\* a frame of opcode 0x27 with two payload bytes
ShortPairing == <<0, 39, 1, 0, 2, 80, 90>>
\* a pairing response that declares 15 payload bytes and carries five
TruncatedPairing == <<0, 39, 1, 0, 15, 0, 0, 80, 90, 100>>
\* a pairing response whose name bytes 02 ff fe are not UTF-8
BadNamePairing == <<0, 39, 1, 0, 15, 0, 0, 80, 90, 100, 0, 0, 0, 0, 0, 0, 0, 2, 255, 254>>
\* a pairing response whose name bytes 02 c3 a9 decode to two characters
NamedPairing == <<0, 39, 1, 0, 15, 0, 0, 10, 20, 30, 0, 0, 0, 0, 0, 0, 0, 2, 195, 169>>

\* what the device sends while the status updater is exercised
StatusChunks ==
    {ShortChunk, HeartbeatChunk, ShortHeartbeat, TruncatedHeartbeat, PairingChunk,
     ShortPairing, TruncatedPairing, BadNamePairing, NamedPairing}

\* the commands typed while the status updater is exercised
StatusInputs == {Input("pair", <<>>), Input("exit", <<>>)}

\* the calls of the codec on its own: build_packet on a sequence number, an
\* opcode and a payload, parse_packet on what it built or on a received chunk
CodecBytes == {0, 1, 255}
Opcodes == {0, 32, 34, 37, 39, 40, 54, 255}
RawBytes == {0, 2, 40}
LongPayload == [k \in 1..255 |-> 170]
CodecPayloads ==
    UNION {[1..n -> CodecBytes] : n \in 0..MaxPayload} \cup {PAIR_1, LongPayload}
RawPackets == UNION {[1..n -> RawBytes] : n \in 0..MaxRaw}
CodecCalls ==
    {[at |-> "args", sequence |-> s, command |-> o, payload |-> p,
      packet |-> <<>>, response |-> NoResponse] :
        s \in 0..15, o \in Opcodes, p \in CodecPayloads}
    \cup {[NoCodec EXCEPT !.at = "raw", !.packet = raw] : raw \in RawPackets}

(***************************************************************************)
(* Initial state: ComHandler(sock) constructed, main() at its first input. *)
(***************************************************************************)
Constructed ==
    /\ sequence = 0
    /\ paired = FALSE
    /\ c_case = NoAttr
    /\ device_name = NoAttr
    /\ incoming_queue = <<>>
    /\ stop_listener = FALSE
    /\ listener = "running"
    /\ updater = "poll"
    /\ data = <<>>
    /\ pairing_response = NoPayload
    /\ live = <<>>
    /\ pc = "input"
    /\ command = ""
    /\ args = <<>>
    /\ seq0 = 0
    /\ seq = 0
    /\ step = 0
    /\ err = None
    /\ sent = <<>>
    /\ last_seq = -1
    /\ dequeued = 0
    /\ reply = <<>>

Init == Constructed /\ codec = NoCodec

(***************************************************************************)
(* The command thread: main() and parse_command.                           *)
(***************************************************************************)
\* the check of line 332 with SP let through as well
NotPaired_but_SP(cmd) == cmd \notin {"pair", "SP"} /\ paired = FALSE

\* line 332: the check that rejects every command but pair before pairing
NotPaired(cmd) == cmd # "pair" /\ paired = FALSE

\* parse_command(command, sequence, *args) up to the first _get_next_message
parse_command(cmd, sequence_, a) ==
    IF NotPaired(cmd)
    THEN Done("You must pair with the device before doing that.", sequence_)
    ELSE LET r == CASE cmd = "exit" -> Raise("NameError")
                    [] cmd = "pair" -> pair_send(sequence_, 0)
                    [] cmd = "GM" ->
                         IF Len(a) # 1 THEN Raise("TypeError")
                         ELSE toggle_send(sequence_, a[1], GAME_MODE_COMMAND)
                    [] cmd = "Spatial" ->
                         IF Len(a) # 1 THEN Raise("TypeError")
                         ELSE toggle_send(sequence_, a[1], SPATIAL_AUDIO_COMMAND)
                    [] cmd = "FN" ->
                         IF Len(a) # 2 THEN Raise("TypeError")
                         ELSE fn_start(sequence_, a[1], a[2])
                    [] cmd = "SP" ->
                         IF Len(a) # 1 THEN Raise("TypeError")
                         ELSE sp_start(sequence_, a[1])
                    [] OTHER -> Done("Unkown command", sequence_)
         IN  IF Raised(r) THEN Caught(r.raised, sequence_) ELSE r

\* the running handler from a returned _get_next_message on, up to its next
\* _get_next_message or to parse_command's return
resume(at, i, sequence_, given, a, chunk) ==
    LET r == CASE at \in {"pair", "drain"} -> pair_resume(at, i, sequence_, chunk)
               [] at = "toggle" -> toggle_resume(sequence_, chunk)
               [] at = "fn" -> fn_resume(i, sequence_, a[1], a[2])
               [] at = "sp" -> sp_resume(sequence_)
    IN  IF Raised(r) THEN Caught(r.raised, given) ELSE r

\* the command thread's variables after a run with result r
Ran(r) ==
    /\ pc' = r.pc
    /\ step' = r.step
    /\ err' = r.err
    /\ seq' = r.seq
    /\ sent' = sent \o r.frames
    /\ last_seq' = IF r.frames = <<>> THEN last_seq ELSE Last(r.frames)[1]

\* main(), lines 362-365: wrap, read a command, call parse_command; and the
\* call up to its first blocking read or its return
Call(cap, in) ==
    /\ pc = "input"
    /\ sequence <= cap
    /\ LET s == IF sequence = 16 THEN 0 ELSE sequence
       IN  /\ sequence' = s
           /\ command' = in.command
           /\ args' = in.args
           /\ seq0' = s
           /\ Ran(parse_command(in.command, s, in.args))
    /\ UNCHANGED <<dequeued, reply, incoming_queue, stop_listener, listener>>
    /\ UNCHANGED updVars
    /\ UNCHANGED codec

\* _get_next_message() with timeout None returns the head of the queue, blocks
\* while the queue is empty; then the handler runs on
Reply ==
    /\ pc \in {"pair", "drain", "toggle", "fn", "sp"}
    /\ incoming_queue # <<>>
    /\ Ran(resume(pc, step, seq, seq0, args, Head(incoming_queue)))
    /\ incoming_queue' = Tail(incoming_queue)
    /\ dequeued' = dequeued + 1
    /\ reply' = IF pc \in {"pair", "drain", "toggle"} THEN Head(incoming_queue) ELSE reply
    /\ UNCHANGED <<sequence, command, args, seq0, stop_listener, listener>>
    /\ UNCHANGED updVars
    /\ UNCHANGED codec

\* main(), lines 365-367: err, sequence, response = the returned tuple; the
\* call's frame is gone, the loop goes back to its top
Loop ==
    /\ pc = "returned"
    /\ pc' = "input"
    /\ sequence' = seq
    /\ command' = ""
    /\ args' = <<>>
    /\ seq0' = 0
    /\ seq' = 0
    /\ step' = 0
    /\ err' = None
    /\ sent' = <<>>
    /\ dequeued' = 0
    /\ reply' = <<>>
    /\ UNCHANGED <<last_seq, incoming_queue, stop_listener, listener>>
    /\ UNCHANGED updVars
    /\ UNCHANGED codec

(***************************************************************************)
(* The listener thread: _listener_loop.                                    *)
(***************************************************************************)
\* sock.recv returns a non-empty chunk, which is put on the queue
Receive(chunks) ==
    /\ listener = "running"
    /\ ~stop_listener
    /\ Len(incoming_queue) < MaxQueue
    /\ \E chunk \in chunks : incoming_queue' = Append(incoming_queue, chunk)
    /\ UNCHANGED <<stop_listener, listener>>
    /\ UNCHANGED cmdVars
    /\ UNCHANGED updVars
    /\ UNCHANGED codec

\* sock.recv raises (timeout of 5 s, link lost): the loop breaks
ReceiveError ==
    /\ listener = "running"
    /\ ~stop_listener
    /\ listener' = "dead"
    /\ UNCHANGED <<incoming_queue, stop_listener>>
    /\ UNCHANGED cmdVars
    /\ UNCHANGED updVars
    /\ UNCHANGED codec

(***************************************************************************)
(* The status thread: _status_updater.                                     *)
(***************************************************************************)
\* line 172 with a chunk on the queue (an empty poll changes nothing)
StatusGet ==
    /\ updater = "poll"
    /\ ~stop_listener
    /\ incoming_queue # <<>>
    /\ data' = Head(incoming_queue)
    /\ incoming_queue' = Tail(incoming_queue)
    /\ updater' = "got"
    /\ UNCHANGED <<paired, c_case, device_name, pairing_response, live>>
    /\ UNCHANGED <<stop_listener, listener>>
    /\ UNCHANGED cmdVars
    /\ UNCHANGED codec

\* what lines 174-188 do with a chunk: [updater, paired, response, live]
Classify(chunk) ==
    LET packet == parse_packet(chunk)
        same == [updater |-> "poll", paired |-> paired,
                 response |-> NoPayload, live |-> live]
        dead == [same EXCEPT !.updater = "dead"]
    IN  IF Raised(packet) THEN dead
        ELSE IF packet.command = HEARTBEAT /\ packet.payload_size > 3
        THEN LET battery_data == _parse_heartbeat(packet)
             IN  IF Raised(battery_data) THEN dead
                 ELSE IF c_case = NoAttr \/ device_name = NoAttr THEN dead
                 ELSE [same EXCEPT !.live = [left |-> battery_data.battery_l,
                                             right |-> battery_data.battery_r,
                                             case |-> c_case.value,
                                             name |-> device_name.value]]
        ELSE IF packet.command = PAIR_COMMAND
        THEN LET response == parse_pairing_response(packet)
             IN  IF Raised(response) THEN dead
                 ELSE IF response.error = "wrong packet" THEN same
                 ELSE [same EXCEPT !.updater = "store", !.paired = TRUE,
                                   !.response = response]
        ELSE same

\* lines 173-188: parse and classify the chunk, show a heartbeat, set paired
StatusClassify ==
    /\ updater = "got"
    /\ LET r == Classify(data)
       IN  /\ updater' = r.updater
           /\ paired' = r.paired
           /\ pairing_response' = r.response
           /\ live' = r.live
           /\ data' = IF r.updater = "store" THEN data ELSE <<>>
    /\ UNCHANGED <<c_case, device_name, incoming_queue, stop_listener, listener>>
    /\ UNCHANGED cmdVars
    /\ UNCHANGED codec

\* lines 189-196: get_status, cache case battery and name, show the snapshot
StatusStore ==
    /\ updater = "store"
    /\ LET status == get_status(pairing_response)
       IN  IF Raised(status)
           THEN /\ updater' = "dead"
                /\ UNCHANGED <<c_case, device_name, live>>
           ELSE /\ updater' = "poll"
                /\ c_case' = Attr(status.c_case)
                /\ device_name' = Attr(pairing_response.name)
                /\ live' = [left |-> status.left, right |-> status.right,
                            case |-> status.c_case, name |-> pairing_response.name]
    /\ pairing_response' = NoPayload
    /\ data' = <<>>
    /\ UNCHANGED <<paired, incoming_queue, stop_listener, listener>>
    /\ UNCHANGED cmdVars
    /\ UNCHANGED codec

(***************************************************************************)
(* The codec called on its own.                                            *)
(***************************************************************************)
InitCodec == Constructed /\ codec \in CodecCalls

\* build_packet(sequence.to_bytes(), command, payload)
Build ==
    /\ codec.at = "args"
    /\ ~Overflows(codec.sequence)
    /\ codec' = [codec EXCEPT !.at = "built",
                              !.packet = build_packet(int_to_bytes(codec.sequence),
                                                      <<codec.command>>,
                                                      codec.payload)]
    /\ UNCHANGED sessionVars

\* parse_packet(packet)
Parse ==
    /\ codec.at \in {"built", "raw"}
    /\ codec' = [codec EXCEPT !.at = IF codec.at = "built" THEN "parsed"
                                     ELSE "rawparsed",
                              !.response = parse_packet(codec.packet)]
    /\ UNCHANGED sessionVars

(***************************************************************************)
(* Specifications.                                                         *)
(***************************************************************************)
Next ==
    \/ \E in \in Inputs : Call(MaxSequence, in)
    \/ Reply
    \/ Loop
    \/ Receive(DeviceChunks)
    \/ ReceiveError
    \/ StatusGet
    \/ StatusClassify
    \/ StatusStore

Spec == Init /\ [][Next]_vars

\* a long session with a device that sends well-formed frames only
NextLong ==
    \/ \E in \in Inputs : Call(LongSequence, in)
    \/ Reply
    \/ Loop
    \/ Receive(ReplyChunks)
    \/ ReceiveError
    \/ StatusGet
    \/ StatusClassify
    \/ StatusStore

SpecLong == Init /\ [][NextLong]_vars

\* the three threads are scheduled fairly whenever they can run; the user need
\* not type and the device need not send
Fairness ==
    /\ WF_vars(Reply)
    /\ WF_vars(Loop)
    /\ WF_vars(StatusGet)
    /\ WF_vars(StatusClassify)
    /\ WF_vars(StatusStore)

FairSpec == Init /\ [][Next]_vars /\ Fairness

\* a device whose frames may be short, truncated or carry a name that is
\* not UTF-8, while the user pairs and exits
NextStatus ==
    \/ \E in \in StatusInputs : Call(MaxSequence, in)
    \/ Reply
    \/ Loop
    \/ Receive(StatusChunks)
    \/ ReceiveError
    \/ StatusGet
    \/ StatusClassify
    \/ StatusStore

SpecStatus == Init /\ [][NextStatus]_vars

\* build_packet and parse_packet applied to each of CodecCalls
NextCodec ==
    \/ Build
    \/ Parse

SpecCodec == InitCodec /\ [][NextCodec]_vars

(***************************************************************************)
(* Vocabulary of the properties.  The wire layout is the one of the        *)
(* protocol: byte 0 sequence, byte 1 opcode, bytes 2-3 client id, byte 4   *)
(* payload length, then the payload.                                       *)
(***************************************************************************)
FrameSequence(frame) == frame[1]

FrameOpcode(frame) == frame[2]

FramePayload(frame) == SubSeq(frame, 6, Len(frame))

\* parse_command has returned its tuple (err, seq, _) to main
Returned == pc = "returned"

\* a call is running or has just returned
InCall == pc # "input"

NotPairedMessage == "You must pair with the device before doing that."

\* the call passed the check of line 332: paired was true when it was made
WasPaired == InCall /\ err # NotPairedMessage

\* a frame is passed to sock.send in this step
FrameWritten == Len(sent') > Len(sent) \/ (pc = "input" /\ sent' # <<>>)

PresetNames == {"standard", "heavybass", "rock", "jazz", "vocal"}

BudNames == {"left", "right"}

FunctionNames == {"control", "volume", "none"}

(***************************************************************************)
(* C1.  While paired is false, parse_command for every command other than  *)
(* pair returns at once with an error, writes no frame, dequeues nothing   *)
(* and returns the sequence it was given.                                  *)
(***************************************************************************)
C1_RejectedBeforePairing ==
    [][(pc = "input" /\ pc' # "input" /\ ~paired /\ command' # "pair")
         => /\ pc' = "returned"
            /\ err' # None
            /\ sent' = <<>>
            /\ last_seq' = last_seq
            /\ dequeued' = 0
            /\ incoming_queue' = incoming_queue
            /\ seq' = seq0'
            /\ seq0' = (IF sequence = 16 THEN 0 ELSE sequence)]_vars

C1_Witness ==
    /\ Returned
    /\ ~paired
    /\ command \in {"GM", "Spatial", "FN", "SP", "exit", "bogus"}
    /\ err = NotPairedMessage
    /\ incoming_queue # <<>>

(***************************************************************************)
(* C2.  Every frame written to the stream carries a sequence value in      *)
(* 0..15, and the frame written after one that carries 15 carries 0, also  *)
(* when a three-frame command crosses the wrap inside one call.            *)
(***************************************************************************)
C2_SequenceWraps ==
    [][FrameWritten => /\ last_seq' \in 0..15
                       /\ (last_seq = 15 => last_seq' = 0)]_vars

(***************************************************************************)
(* C3.  When pair has returned without error, paired is true.              *)
(***************************************************************************)
C3_PairedAfterPair ==
    (Returned /\ command = "pair" /\ err = None) => paired

(***************************************************************************)
(* C4.  A successful pair started at sequence s has written exactly the    *)
(* three frames (s, 0x27, PAIR_0), (s+1, 0x27, PAIR_1), (s+2, 0x27,        *)
(* PAIR_2), has dequeued four chunks and returns s+3; the k-th frame is    *)
(* written only once k-1 chunks were dequeued, and the drain read follows  *)
(* the third reply.                                                        *)
(***************************************************************************)
C4_PairHandshake ==
    (InCall /\ command = "pair") =>
        /\ pc = "pair" => Len(sent) = step + 1 /\ dequeued = step /\ step \in 0..2
        /\ pc = "drain" => Len(sent) = 3 /\ dequeued = 3
        /\ \A k \in 1..Len(sent) :
              /\ FrameSequence(sent[k]) = seq0 + k - 1
              /\ FrameOpcode(sent[k]) = 39
              /\ FramePayload(sent[k]) = <<PAIR_0, PAIR_1, PAIR_2>>[k]
        /\ (Returned /\ err = None) => Len(sent) = 3 /\ dequeued = 4 /\ seq = seq0 + 3

C4_Witness ==
    /\ Returned
    /\ command = "pair"
    /\ err = None
    /\ seq0 = 3
    /\ seq = 6
    /\ dequeued = 4

(***************************************************************************)
(* C5.  With paired true, SP <name> for each of the five preset names      *)
(* writes exactly one frame with opcode 0x20 whose payload is the 11-byte  *)
(* template whose first byte is the name's number (standard 1, heavybass   *)
(* 2, rock 3, jazz 4, vocal 5), and returns the sequence plus 1.           *)
(***************************************************************************)
PresetNumber(name) ==
    CASE name = "standard"  -> 1
      [] name = "heavybass" -> 2
      [] name = "rock"      -> 3
      [] name = "jazz"      -> 4
      [] name = "vocal"     -> 5

C5_PresetTemplate ==
    (WasPaired /\ command = "SP" /\ Len(args) = 1 /\ args[1] \in PresetNames) =>
        /\ Len(sent) = 1
        /\ FrameOpcode(sent[1]) = 32
        /\ FrameSequence(sent[1]) = seq0
        /\ Len(FramePayload(sent[1])) = 11
        /\ FramePayload(sent[1])[1] = PresetNumber(args[1])
        /\ \E k \in 1..Len(PRESETS_LIST) : FramePayload(sent[1]) = PRESETS_LIST[k]
        /\ Returned => err = None /\ seq = seq0 + 1

(***************************************************************************)
(* C6.  With paired true, FN <bud> <preset> for bud left (1) or right (2)  *)
(* and preset control, volume or none writes exactly three frames with     *)
(* opcode 0x22 whose payloads are the byte bud+0, bud+2, bud+4 followed by *)
(* the 1st, 2nd, 3rd action code of the preset's triple (control is        *)
(* [NONE, PLAY_PAUSE, LAST_TRACK] for left, [NONE, PLAY_PAUSE, NEXT_TRACK] *)
(* for right); they carry s, s+1, s+2 and s+3 is returned.                 *)
(***************************************************************************)
BudNumber(bud) == IF bud = "left" THEN 1 ELSE 2

Triple(bud, preset) ==
    CASE preset = "control" /\ bud = "left"  -> << <<1, 0>>, <<1, 7>>, <<1, 3>> >>
      [] preset = "control" /\ bud = "right" -> << <<1, 0>>, <<1, 7>>, <<1, 4>> >>
      [] preset = "volume"                   -> << <<1, 6>>, <<1, 5>>, <<1, 0>> >>
      [] preset = "none"                     -> << <<1, 0>>, <<1, 0>>, <<1, 0>> >>

C6_TapFunctions ==
    (WasPaired /\ command = "FN" /\ Len(args) = 2
       /\ args[1] \in BudNames /\ args[2] \in FunctionNames) =>
        /\ pc = "fn" => Len(sent) = step + 1
        /\ \A k \in 1..Len(sent) :
              /\ FrameOpcode(sent[k]) = 34
              /\ FrameSequence(sent[k]) = seq0 + k - 1
              /\ FramePayload(sent[k])
                   = <<BudNumber(args[1]) + 2 * (k - 1)>> \o Triple(args[1], args[2])[k]
        /\ Returned => err = None /\ Len(sent) = 3 /\ seq = seq0 + 3

C6_Witness ==
    /\ Returned
    /\ command = "FN"
    /\ args = <<"left", "control">>
    /\ err = None
    /\ Len(sent) = 3
    /\ FramePayload(sent[1])[1] = 1
    /\ FramePayload(sent[2])[1] = 3
    /\ FramePayload(sent[3])[1] = 5

(***************************************************************************)
(* C7.  With paired true, GM ON / GM OFF writes exactly one frame with     *)
(* opcode 0x25 and Spatial ON / Spatial OFF exactly one with opcode 0x36,  *)
(* payload the single byte 1 for ON and 0 for OFF, carrying the input      *)
(* sequence; with a well-formed reply the call returns no error and the    *)
(* input sequence plus 1.                                                  *)
(***************************************************************************)
WellFormed(chunk) == Len(chunk) >= 5 /\ Len(chunk) >= 5 + chunk[5]

C7_Toggle ==
    (WasPaired /\ command \in {"GM", "Spatial"} /\ args \in {<<"ON">>, <<"OFF">>}) =>
        /\ Len(sent) = 1
        /\ FrameOpcode(sent[1]) = (IF command = "GM" THEN 37 ELSE 54)
        /\ FramePayload(sent[1]) = (IF args[1] = "ON" THEN <<1>> ELSE <<0>>)
        /\ FrameSequence(sent[1]) = seq0
        /\ (Returned /\ WellFormed(reply)) => err = None /\ seq = seq0 + 1 /\ dequeued = 1

C7_Witness ==
    /\ Returned
    /\ command = "GM"
    /\ args = <<"ON">>
    /\ WellFormed(reply)
    /\ seq0 = 3
    /\ seq = 4
    /\ err = None

(***************************************************************************)
(* C8.  With paired true, SP <name> for a name that is none of the five    *)
(* preset names writes no frame, dequeues nothing, returns an error and    *)
(* the sequence unchanged.                                                 *)
(***************************************************************************)
C8_UnknownPreset ==
    (WasPaired /\ command = "SP" /\ Len(args) = 1 /\ args[1] \notin PresetNames) =>
        /\ Returned
        /\ sent = <<>>
        /\ dequeued = 0
        /\ err # None
        /\ seq = seq0

C8_Witness ==
    /\ Returned
    /\ paired
    /\ command = "SP"
    /\ args = <<"foo">>
    /\ err = "Selected preset does not exist."

(***************************************************************************)
(* C9.  With paired true, FN <bud> <preset> with a bud other than left,    *)
(* right or a preset other than control, volume, none (the table keys      *)
(* control1 and control2 included) writes no frame, returns an error and   *)
(* the sequence unchanged.                                                 *)
(***************************************************************************)
C9_UnknownFunction ==
    (WasPaired /\ command = "FN" /\ Len(args) = 2
       /\ (args[1] \notin BudNames \/ args[2] \notin FunctionNames)) =>
        /\ Returned
        /\ sent = <<>>
        /\ err # None
        /\ seq = seq0

(***************************************************************************)
(* C10.  Every command invocation eventually returns to its caller.        *)
(***************************************************************************)
C10_CallReturns == (InCall /\ ~Returned) ~> Returned

(***************************************************************************)
(* Vocabulary of the status properties: the frame the status updater has   *)
(* dequeued and is working on.                                             *)
(***************************************************************************)
DeclaredLength(frame) == frame[5]

\* the payload bytes a frame carries, up to the length it declares
CarriedPayload(frame) == SubSeq(frame, 6, Min(Len(frame), 5 + frame[5]))

\* the status updater holds a dequeued frame of this opcode
Dispatching(opcode) == updater = "got" /\ Len(data) >= 5 /\ FrameOpcode(data) = opcode

\* the status updater parses and classifies the frame it holds in this step
Classified == updater = "got" /\ updater' # "got"

\* the name bytes payload[12 : 12 + payload[12] + 1] of a pairing payload
NameBytes(payload) == SubSeq(payload, 13, Min(Len(payload), 13 + payload[13]))

(***************************************************************************)
(* C11.  A dequeued frame of opcode 0x28 with more than 3 payload bytes    *)
(* makes the status updater show left = payload[2], right = payload[3]     *)
(* and the case battery and name kept from the last pairing response, in   *)
(* every state, also before any pairing response; one with at most 3       *)
(* payload bytes shows nothing and changes no state.                       *)
(***************************************************************************)
C11_HeartbeatUpdate ==
    [][/\ (Dispatching(40) /\ Classified /\ Len(CarriedPayload(data)) > 3) =>
            /\ updater' = "poll"
            /\ "left" \in DOMAIN live'
            /\ live'.left = CarriedPayload(data)[3]
            /\ live'.right = CarriedPayload(data)[4]
            /\ c_case # NoAttr => live'.case = c_case.value
            /\ device_name # NoAttr => live'.name = device_name.value
            /\ UNCHANGED <<paired, c_case, device_name>>
       /\ (Dispatching(40) /\ Classified /\ DeclaredLength(data) <= 3) =>
            /\ updater' = "poll"
            /\ UNCHANGED <<paired, c_case, device_name, live>>]_vars

(***************************************************************************)
(* C12.  A dequeued frame of opcode 0x27 with more than 14 payload bytes   *)
(* makes the status updater set paired and record left, right and case     *)
(* battery = payload[2], payload[3], payload[4] and the device name =      *)
(* the text of payload[12 : 12 + payload[12] + 1]; one of at most 14       *)
(* payload bytes is skipped and leaves paired, the cached case battery and *)
(* the cached name as they were.                                           *)
(***************************************************************************)
PairingRecorded ==
    LET payload == CarriedPayload(data)
        name == Utf8(NameBytes(payload))
    IN  /\ updater' = "poll"
        /\ paired'
        /\ c_case' = Attr(payload[5])
        /\ device_name' = Attr(name)
        /\ live' = [left |-> payload[3], right |-> payload[4],
                    case |-> payload[5], name |-> name]

PairingSkipped ==
    (Dispatching(39) /\ Classified /\ DeclaredLength(data) <= 14) =>
        /\ updater' = "poll"
        /\ UNCHANGED <<paired, c_case, device_name, live>>

\* the status updater goes on from line 188 in this step
Stored == updater = "store" /\ updater' # "store"

C13_RoundTrip ==
    codec.at = "parsed" =>
        /\ ~Raised(codec.response)
        /\ codec.response.error = None
        /\ codec.response.sequence = <<codec.sequence>>
        /\ codec.response.command = <<codec.command>>
        /\ codec.response.id = <<1>>
        /\ codec.response.payload_size = Len(codec.payload)
        /\ codec.response.payload = codec.payload

C13_Witness ==
    /\ codec.at = "parsed"
    /\ codec.sequence = 15
    /\ codec.command = 255
    /\ codec.payload = LongPayload
    /\ codec.response.payload_size = 255
    /\ codec.response.payload = LongPayload

(***************************************************************************)
(* C14.  The exit command sets the stop signal (after which the reader     *)
(* loop and the dispatcher loop end and a consumer waiting on the queue is *)
(* released).                                                              *)
(***************************************************************************)
C14_ExitStops ==
    (Returned /\ command = "exit" /\ WasPaired) => stop_listener

(***************************************************************************)
(* C15.  Whenever parse_command returns, with an error or without, the     *)
(* sequence it returns is the one it was given plus the number of frames   *)
(* it wrote.                                                               *)
(***************************************************************************)
C15_OnePerFrame == Returned => seq = seq0 + Len(sent)

(***************************************************************************)
(* C16.  No inbound frame ends the dispatcher loop: while the stop signal  *)
(* is not set the status updater is alive, whatever it has dequeued.       *)
(***************************************************************************)
C16_DispatcherAlive == ~stop_listener => updater # "dead"

(***************************************************************************)
(* C17.  parse_packet on a byte string of fewer than 5 + raw[4] bytes      *)
(* (fewer than 5 included) returns the indexing error result, so every     *)
(* Response returned without error has payload_size = len(payload).        *)
(***************************************************************************)
C17_FramingError ==
    codec.at \in {"parsed", "rawparsed"} =>
        /\ (Len(codec.packet) < 5 \/ Len(codec.packet) < 5 + codec.packet[5]) =>
               (~Raised(codec.response) /\ codec.response.error = "Indexing error")
        /\ (~Raised(codec.response) /\ codec.response.error = None) =>
               codec.response.payload_size = Len(codec.response.payload)

(***************************************************************************)
(* C18.  paired and the cached telemetry change together: in no state,     *)
(* which the command thread may observe at any time and which stays once   *)
(* the status updater has stopped, is paired true while the case battery   *)
(* and the device name are not set from a pairing response.                *)
(***************************************************************************)
C18_PairedWithTelemetry == paired => (c_case # NoAttr /\ device_name # NoAttr)

(***************************************************************************)
(* C19.  The two consumers of the queue take each other's frames: a frame  *)
(* that is neither heartbeat nor pairing response, taken by the status     *)
(* updater, is discarded and the waiting command learns nothing of it; a   *)
(* heartbeat or pairing frame taken by a waiting GM / Spatial is accepted  *)
(* as its reply, the command returns success and the telemetry is not      *)
(* shown or cached.  Both happen (C19_Witness).                            *)
(***************************************************************************)
TelemetryFrame(chunk) == Len(chunk) >= 5 /\ FrameOpcode(chunk) \in {39, 40}

C19_CrossedReplies ==
    [][/\ (Classified /\ Len(data) >= 5 /\ ~TelemetryFrame(data)) =>
            /\ updater' = "poll"
            /\ UNCHANGED <<paired, c_case, device_name, live>>
            /\ UNCHANGED cmdVars
       /\ (pc = "toggle" /\ pc' # "toggle" /\ TelemetryFrame(Head(incoming_queue))) =>
            /\ pc' = "returned"
            /\ err' = None
            /\ seq' = seq + 1
            /\ reply' = Head(incoming_queue)
            /\ UNCHANGED updVars]_vars

\* GM ON has returned success on a heartbeat while the status updater holds
\* the acknowledgement
C19_Witness ==
    /\ Returned
    /\ command = "GM"
    /\ err = None
    /\ reply = HeartbeatChunk
    /\ updater = "got"
    /\ data = AckChunk
    /\ incoming_queue = <<>>

(***************************************************************************)
(* C20.  GM and Spatial send the ON byte 0x01 only for the state argument  *)
(* "ON"; any other argument (OFF, on, a misspelling) is not rejected: one  *)
(* frame with payload 0x00 is written and, the reply being a frame, the    *)
(* call returns without error and the sequence advanced by 1.              *)
(***************************************************************************)
C20_StateArgument ==
    (WasPaired /\ command \in {"GM", "Spatial"} /\ Len(args) = 1) =>
        /\ Len(sent) = 1
        /\ (FramePayload(sent[1]) = <<1>>) <=> (args[1] = "ON")
        /\ args[1] # "ON" => FramePayload(sent[1]) = <<0>>
        /\ (Returned /\ WellFormed(reply)) => (err = None /\ seq = seq0 + 1)

C20_Witness ==
    /\ Returned
    /\ WasPaired
    /\ command = "Spatial"
    /\ args = <<"on">>
    /\ Len(sent) = 1
    /\ FramePayload(sent[1]) = <<0>>
    /\ err = None
    /\ seq = seq0 + 1

====
